---- MODULE Spec2Model ----
(***************************************************************************)
(* The orchestration core of the framework: App (App.ts) and HandleRequest *)
(* (HandleRequest.ts).  Objects live in a heap of cells addressed by       *)
(* number, so that sharing and copying of objects is part of the model.    *)
(***************************************************************************)
EXTENDS Integers, Sequences, FiniteSets, TLC

\* ------------------------------------------------------------------ bounds
MaxReq == 1        \* handle() invocations, when the App is not being extended
MaxConc == 2       \* handle() invocations in flight while the App is extended
MaxInit == 2       \* initialize() invocations
MaxErrInit == 1    \* initialize() invocations beside a handle() invocation
MaxAppOps == 1     \* use / hook / configure calls while requests are in flight
MaxMut == 1        \* writes to a request's config or plugin config
MaxMerges == 3     \* configure calls in the configure-only specification

\* ------------------------------------------------------- configuration values
\* A JavaScript value: a scalar, undefined, a plain object or an array.  Objects
\* and arrays are maps from property keys to values; an array's elements are
\* under the index keys "0", "1", "2".
Undef == [t |-> "u"]
Scalar(n) == [t |-> "s", v |-> n]
Obj(m) == [t |-> "o", m |-> m]
EmptyObj == [t |-> "o", m |-> <<>>]
EmptyArr == [t |-> "a", m |-> <<>>]
IdxKeys == <<"0", "1", "2">>
Arr(seq) ==
  [t |-> "a",
   m |-> [k \in {IdxKeys[i] : i \in 1..Len(seq)} |->
            seq[CHOOSE i \in 1..Len(seq) : IdxKeys[i] = k]]]
IsObject(x) == x.t \in {"o", "a"}
Has(x, k) == IsObject(x) /\ k \in DOMAIN x.m
Get(x, k) == IF Has(x, k) THEN x.m[k] ELSE Undef
Put(x, k, y) ==
  [t |-> x.t, m |-> [j \in DOMAIN x.m \cup {k} |-> IF j = k THEN y ELSE x.m[j]]]
\* the number of elements of an array
ArrLen(x) == Cardinality({i \in 1..Len(IdxKeys) : IdxKeys[i] \in DOMAIN x.m})

\* lodash.merge(object, source): every key of source is merged into object.
\*  - an array source value merges into an existing array (index by index) and
\*    into a fresh [] when the existing value is not an array;
\*  - a plain-object source value merges into an existing object or array and
\*    into a fresh {} otherwise;
\*  - undefined is skipped when the key exists, and creates the key otherwise;
\*  - any other value is assigned.
MergeOverwrite(object, source) ==
  [t |-> object.t,
   m |-> [k \in DOMAIN object.m \cup DOMAIN source.m |->
            IF k \in DOMAIN source.m /\ source.m[k].t # "u"
              THEN source.m[k] ELSE Get(object, k)]]

RECURSIVE Merge(_, _)
Merge(object, source) ==
  [t |-> object.t,
   m |-> [k \in DOMAIN object.m \cup DOMAIN source.m |->
            IF k \notin DOMAIN source.m THEN object.m[k]
            ELSE LET sv == source.m[k]
                     ov == Get(object, k)
                 IN  CASE sv.t = "a" ->
                            Merge(IF ov.t = "a" THEN ov ELSE EmptyArr, sv)
                       [] sv.t = "o" ->
                            Merge(IF IsObject(ov) THEN ov ELSE EmptyObj, sv)
                       [] sv.t = "u" -> ov
                       [] OTHER -> sv]]

Truthy(x) == IsObject(x) \/ (x.t = "s" /\ x.v # 0)

\* --------------------------------------------------------------- the catalog
APP_MIDDLEWARES_ROUTER_LATE ==
  <<"request.start", "request", "request.end",
    "interpretation.start", "interpretation.asr", "interpretation.nlu",
    "interpretation.end",
    "dialogue.start", "dialogue.logic", "dialogue.router", "dialogue.end",
    "response.start", "response.output", "response.tts", "response.end">>
\* APP_MIDDLEWARES: the RIDR stages, in order.
APP_MIDDLEWARES ==
  <<"request.start", "request", "request.end",
    "interpretation.start", "interpretation.asr", "interpretation.nlu",
    "interpretation.end",
    "dialogue.start", "dialogue.router", "dialogue.logic", "dialogue.end",
    "response.start", "response.output", "response.tts", "response.end">>
StageNames == {APP_MIDDLEWARES[i] : i \in 1..Len(APP_MIDDLEWARES)}
StageIndex(name) == CHOOSE i \in 1..Len(APP_MIDDLEWARES) : APP_MIDDLEWARES[i] = name

\* What a caller can hand to App.use: a Plugin instance (a Platform is a Plugin
\* that answers isRequestRelated; `recog` is the set of payloads it answers
\* true for; `hooks` are the stage handlers its install() contributes) or a
\* component.
Payloads == {"alexa", "both", "none"}
PluginUsable(name, platform, recog, config, hooks) ==
  [plugin |-> TRUE, name |-> name, platform |-> platform, recog |-> recog,
   config |-> config, hooks |-> hooks]
ComponentUsable(name) ==
  [plugin |-> FALSE, name |-> name, platform |-> FALSE, recog |-> {},
   config |-> EmptyObj, hooks |-> <<>>]
Alexa == PluginUsable("Alexa", TRUE, {"alexa", "both"}, EmptyObj, <<>>)
GoogleAssistant ==
  PluginUsable("GoogleAssistant", TRUE, {"both"}, EmptyObj, <<>>)
JovoDebugger ==
  PluginUsable("JovoDebugger", FALSE, {}, Obj([skipTests |-> Scalar(1)]),
               << <<"response.output", "debug">> >>)
DialoguePlugin ==
  PluginUsable("DialoguePlugin", FALSE, {}, EmptyObj,
               << <<"dialogue.router", "route">>, <<"dialogue.logic", "logic">> >>)
MainComponent == ComponentUsable("MainComponent")
\* The plugins the App constructor registers itself (line 81).
RouterPlugin == PluginUsable("RouterPlugin", FALSE, {}, EmptyObj, <<>>)
HandlerPlugin == PluginUsable("HandlerPlugin", FALSE, {}, EmptyObj, <<>>)
OutputPlugin == PluginUsable("OutputPlugin", FALSE, {}, EmptyObj, <<>>)

VARIABLES
  heap,      \* the objects: [cfg, plug, reg, mw, tree], each a sequence of cells
  app,       \* the App: addresses of its config, plugins, middlewareCollection
             \* and componentTree, and initialized, errorCallback
  testEnv,   \* process.env.NODE_ENV === 'test' || process.env.JEST_WORKER_ID
  reqs,      \* the handle() invocations, each with its HandleRequest
  inits,     \* the initialize() invocations
  setup,     \* how often i18n.initialize() and initializePlugins() were started
  thrown,    \* what the last use/hook/configure call threw to its caller
  ops        \* counters that bound the run, and the last callback given to
             \* onError
vars == <<heap, app, testEnv, reqs, inits, setup, thrown, ops>>

\* ------------------------------------------------------------------ the heap
\* _cloneDeep(app): a copy of every object reachable from the App, in fresh
\* cells; the result is the copy's addresses.
CloneAlias(h, a) == [heap |-> h, ext |-> a]
CloneDeep(h, a) ==
  LET plugs == h.reg[a.plugins]
      n == Len(plugs)
  IN  [heap |->
         [cfg  |-> h.cfg \o <<h.cfg[a.config]>>
                     \o [i \in 1..n |-> h.cfg[h.plug[plugs[i]].cfg]],
          plug |-> h.plug \o [i \in 1..n |->
                     [h.plug[plugs[i]] EXCEPT !.cfg = Len(h.cfg) + 1 + i]],
          reg  |-> Append(h.reg, [i \in 1..n |-> Len(h.plug) + i]),
          mw   |-> Append(h.mw, h.mw[a.mw]),
          tree |-> Append(h.tree, h.tree[a.tree])],
       ext |-> [config |-> Len(h.cfg) + 1, plugins |-> Len(h.reg) + 1,
                mw |-> Len(h.mw) + 1, tree |-> Len(h.tree) + 1]]

\* ------------------------------------------- MiddlewareCollection, Extensible
\* new MiddlewareCollection(...names): one empty handler list per name.
NewMiddlewareCollection(names) == [n \in names |-> <<>>]
\* MiddlewareCollection.use(name, fn): append fn to the stage's handlers.
MiddlewareUse(mc, name, fn) == [mc EXCEPT ![name] = Append(@, fn)]
\* MiddlewareCollection.remove(...names): the named stages lose their handlers.
MiddlewareRemove(mc, names) ==
  [n \in DOMAIN mc |-> IF n \in names THEN <<>> ELSE mc[n]]
RECURSIVE FoldHooks(_, _)
FoldHooks(mc, hooks) ==
  IF hooks = <<>> THEN mc
  ELSE FoldHooks(MiddlewareUse(mc, Head(hooks)[1], Head(hooks)[2]), Tail(hooks))

\* Extensible.use(...plugins) on the Extensible whose addresses are e: each
\* plugin is stored under its name (a name already present keeps its place and
\* gets the new instance) and installed, its handlers appended to the stages
\* of the owner's collection.
RECURSIVE ExtensibleUse(_, _, _)
ExtensibleUse(h, e, plugins) ==
  IF plugins = <<>> THEN h
  ELSE LET p == Head(plugins)
           plugAddr == Len(h.plug) + 1
           reg == h.reg[e.plugins]
           at == {i \in 1..Len(reg) : h.plug[reg[i]].name = p.name}
           h2 == [h EXCEPT
                    !.cfg = Append(@, p.config),
                    !.plug = Append(@, [name |-> p.name, platform |-> p.platform,
                                        recog |-> p.recog, cfg |-> Len(h.cfg) + 1]),
                    !.reg[e.plugins] =
                       IF at = {} THEN Append(@, plugAddr)
                       ELSE [i \in 1..Len(@) |-> IF i \in at THEN plugAddr ELSE @[i]],
                    !.mw[e.mw] = FoldHooks(@, p.hooks)]
       IN  ExtensibleUse(h2, e, Tail(plugins))

\* ComponentTree.add(...components): a name already in the tree is refused.
RECURSIVE ComponentTreeAdd(_, _)
ComponentTreeAdd(tree, components) ==
  IF components = <<>> THEN [tree |-> tree, thrown |-> "none"]
  ELSE IF Head(components).name \in tree
         THEN [tree |-> tree, thrown |-> "DuplicateComponentError"]
         ELSE ComponentTreeAdd(tree \cup {Head(components).name}, Tail(components))

\* ------------------------------------------------------------------ App.use
\* The plugins among the usables, without those that carry skipTests under a
\* test runner (lines 141-154).
UsePluginsAll(usables, env) == LET T(u) == u.plugin IN SelectSeq(usables, T)
UsePlugins(usables, env) ==
  LET T(u) == u.plugin /\ ~(env /\ Truthy(Get(u.config, "skipTests")))
  IN  SelectSeq(usables, T)
\* The usables that are not plugins (line 158).
UseComponentsAll(usables) == usables
UseComponents(usables) == LET T(u) == ~u.plugin IN SelectSeq(usables, T)

\* App.use(...usables) on the App with addresses a: the heap afterwards and
\* what the call threw.
AppUse(h, a, usables, env) ==
  LET plugins == UsePlugins(usables, env)
      h2 == IF plugins # <<>> THEN ExtensibleUse(h, a, plugins) ELSE h
      components == UseComponents(usables)
      added == ComponentTreeAdd(h2.tree[a.tree], components)
  IN  IF components # <<>>
        THEN [heap |-> [h2 EXCEPT !.tree[a.tree] = added.tree],
              thrown |-> added.thrown]
        ELSE [heap |-> h2, thrown |-> "none"]

\* ------------------------------------------------------------ construction
\* App.getDefaultConfig(): { logging: true }.
AppDefaultConfig == Obj([logging |-> Scalar(1)])
\* HandleRequest.getDefaultConfig(): { intentMap: {}, logging: {} }.
HandleRequestDefaultConfig == Obj([intentMap |-> EmptyObj, logging |-> EmptyObj])
BasicLogging(config) == PluginUsable("BasicLogging", FALSE, {}, config, <<>>)

\* The configs handed to new App(config).
InitConfig(conf, plugins, components) ==
  [conf |-> conf, plugins |-> plugins, components |-> components]
CtorConfigs ==
  { InitConfig(EmptyObj, <<Alexa, DialoguePlugin>>, <<>>),
    InitConfig(EmptyObj, <<GoogleAssistant, Alexa, JovoDebugger>>, <<MainComponent>>),
    InitConfig(Obj([logging |-> Scalar(0)]), <<JovoDebugger>>, <<>>) }

\* new App(config), lines 72-85: the Extensible constructor merges the config
\* over the default config and registers config.plugins; then BasicLogging is
\* registered as config.logging says, then the three core plugins; the
\* component tree holds config.components.
AppConstructor(config, env) ==
  LET a == [config |-> 1, plugins |-> 1, mw |-> 1, tree |-> 1,
            initialized |-> FALSE, errorCallback |-> 0]
      conf == Merge(AppDefaultConfig, Put(config.conf, "components", Undef))
      h0 == [cfg |-> <<conf>>, plug |-> <<>>, reg |-> << <<>> >>,
             mw |-> <<NewMiddlewareCollection(StageNames)>>, tree |-> <<{}>>]
      h1 == AppUse(h0, a, config.plugins, env).heap
      logging == Get(conf, "logging")
      h2 == IF logging.t = "s" /\ logging.v # 0
              THEN AppUse(h1, a, <<BasicLogging(Obj([request |-> Scalar(1),
                                                    response |-> Scalar(1)]))>>, env).heap
            ELSE IF logging.t = "o"
              THEN AppUse(h1, a, <<BasicLogging(logging)>>, env).heap
            ELSE h1
      h3 == AppUse(h2, a, <<RouterPlugin, HandlerPlugin, OutputPlugin>>, env).heap
      t == ComponentTreeAdd({}, config.components).tree
  IN  [heap |-> [h3 EXCEPT !.tree[1] = t], app |-> a]

\* new HandleRequest(app, server), lines 218-222.  super(_cloneDeep(app.config))
\* gives the request its own config object (the copy merged over the default
\* config) and its own, empty plugins object; _merge(this, _cloneDeep(app))
\* then merges the copy's config into that config, fills the plugins object
\* with the copy's plugin instances, and takes over the copy's
\* middlewareCollection and componentTree (instances of classes are assigned,
\* not merged).
NewHandleRequest(h, a) ==
  LET own == Merge(HandleRequestDefaultConfig, h.cfg[a.config])
      h1 == [h EXCEPT !.cfg = Append(@, own), !.reg = Append(@, <<>>)]
      c == CloneDeep(h1, a)
      h2 == [c.heap EXCEPT
               !.cfg[Len(h1.cfg)] = Merge(@, c.heap.cfg[c.ext.config]),
               !.reg[Len(h1.reg)] = c.heap.reg[c.ext.plugins]]
  IN  [heap |-> h2,
       ext |-> [config |-> Len(h1.cfg), plugins |-> Len(h1.reg),
                mw |-> c.ext.mw, tree |-> c.ext.tree]]

\* The platforms getter (lines 91-93, 224-226): the plugins that are
\* Platforms, in the order of the plugins object.
Platforms(h, e) ==
  LET T(addr) == h.plug[addr].platform IN SelectSeq(h.reg[e.plugins], T)

\* What an Extensible (the App or a HandleRequest) sees.
ConfigOf(e) == heap.cfg[e.config]
PluginsOf(e) ==
  [i \in 1..Len(heap.reg[e.plugins]) |->
     LET c == heap.plug[heap.reg[e.plugins][i]]
     IN  [name |-> c.name, platform |-> c.platform, recog |-> c.recog,
          config |-> heap.cfg[c.cfg]]]
HandlersOf(e) == heap.mw[e.mw]
TreeOf(e) == heap.tree[e.tree]
RegistryOf(e) == [plugins |-> PluginsOf(e), handlers |-> HandlersOf(e), tree |-> TreeOf(e)]

InitWith(configs, envs) ==
  /\ testEnv \in envs
  /\ \E config \in configs :
        LET c == AppConstructor(config, testEnv)
        IN  heap = c.heap /\ app = c.app
  /\ reqs = <<>>
  /\ inits = <<>>
  /\ setup = [i18n |-> 0, plugins |-> 0]
  /\ thrown = "none"
  /\ ops = [app |-> 0, mut |-> 0, onError |-> 0]
Init == InitWith(CtorConfigs, BOOLEAN)

\* --------------------------------------------------- the App's registration
UseInputs == { <<JovoDebugger>>, <<MainComponent>>, <<Alexa, MainComponent>> }
HookNames == {"dialogue.router", "response.end", "not.a.stage"}
HookFns == {"fn"}
ConfigureInputs ==
  { InitConfig(Obj([logging |-> Obj([request |-> Scalar(1)])]), <<>>, <<>>),
    InitConfig(EmptyObj, <<GoogleAssistant>>, <<MainComponent>>) }
Callbacks == {1, 2}

\* App.use(...usables), lines 140-165.
Use(usables, max) ==
  /\ ops.app < max
  /\ LET r == AppUse(heap, app, usables, testEnv)
     IN  heap' = r.heap /\ thrown' = r.thrown
  /\ ops' = [ops EXCEPT !.app = @ + 1]
  /\ UNCHANGED <<app, testEnv, reqs, inits, setup>>

HookCreatesStage(name, fn, max) ==
  /\ ops.app < max
  /\ heap' = [heap EXCEPT !.mw[app.mw] =
        [n \in DOMAIN @ \cup {name} |->
           IF n = name THEN (IF n \in DOMAIN @ THEN Append(@[n], fn) ELSE <<fn>>)
           ELSE @[n]]]
  /\ thrown' = "none"
  /\ ops' = [ops EXCEPT !.app = @ + 1]
  /\ UNCHANGED <<app, testEnv, reqs, inits, setup>>

\* App.hook(name, fn), lines 117-119: middlewareCollection.use(name, fn), which
\* refuses a name that is not a stage of the collection.
Hook(name, fn, max) ==
  /\ ops.app < max
  /\ IF name \in DOMAIN heap.mw[app.mw]
       THEN /\ heap' = [heap EXCEPT !.mw[app.mw] = MiddlewareUse(@, name, fn)]
            /\ thrown' = "none"
       ELSE /\ heap' = heap
            /\ thrown' = "InvalidMiddlewareNameError"
  /\ ops' = [ops EXCEPT !.app = @ + 1]
  /\ UNCHANGED <<app, testEnv, reqs, inits, setup>>

\* The source of the merge in App.configure (line 96):
\* { ...config, components: undefined, plugins: undefined }.
ConfigureSourceRaw(config) == config.conf
ConfigureSource(config) ==
  Put(Put(config.conf, "components", Undef), "plugins", Undef)

\* App.configure(config), lines 95-99, bounded by max calls.
Configure(config, max) ==
  /\ ops.app < max
  /\ LET h1 == [heap EXCEPT
                  !.cfg[app.config] = Merge(@, ConfigureSource(config))]
         r == AppUse(h1, app, config.plugins \o config.components, testEnv)
     IN  heap' = r.heap /\ thrown' = r.thrown
  /\ ops' = [ops EXCEPT !.app = @ + 1]
  /\ UNCHANGED <<app, testEnv, reqs, inits, setup>>

\* App.onError(cb), lines 101-103.
OnErrorKeepFirst(cb) ==
  /\ app' = [app EXCEPT !.errorCallback = IF @ = 0 THEN cb ELSE @]
  /\ ops' = [ops EXCEPT !.onError = cb]
  /\ UNCHANGED <<heap, testEnv, reqs, inits, setup, thrown>>
OnError(cb) ==
  /\ app' = [app EXCEPT !.errorCallback = cb]
  /\ ops' = [ops EXCEPT !.onError = cb]
  /\ UNCHANGED <<heap, testEnv, reqs, inits, setup, thrown>>

\* App.handleError(e), lines 198-204, as called from the catch blocks of
\* initialize() and handle(): how the invocation ends.  cb is the callback
\* invoked (0: none), cbError and cbJovo its arguments.
\* raised is the error the try block raised.
Ended(result, raised, error, cb, cbError, cbJovo) ==
  [result |-> result, raised |-> raised, error |-> error, cb |-> cb,
   cbError |-> cbError, cbJovo |-> cbJovo]
Pending == Ended("pending", "none", "none", 0, "none", FALSE)
Returned == Ended("returned", "none", "none", 0, "none", FALSE)
\* The callback is the caller's code: callback 2 throws an error of its own,
\* which "return this.errorCallback(e, jovo)" lets through.
CallbackResult(cb, e) ==
  IF cb = 2 THEN Ended("thrown", e, "CallbackError", cb, e, FALSE)
            ELSE Ended("returned", e, "none", cb, e, FALSE)
HandleErrorPassesJovo(e) ==
  IF app.errorCallback # 0
    THEN [CallbackResult(app.errorCallback, e) EXCEPT !.cbJovo = TRUE]
    ELSE Ended("thrown", e, e, 0, "none", FALSE)
HandleErrorSwallow(e) ==
  IF app.errorCallback # 0
    THEN CallbackResult(app.errorCallback, e)
    ELSE Ended("returned", e, "none", 0, "none", FALSE)
HandleError(e) ==
  IF app.errorCallback # 0
    THEN CallbackResult(app.errorCallback, e)
    ELSE Ended("thrown", e, e, 0, "none", FALSE)

\* ------------------------------------------------------------- App.handle
\* A handle() invocation: the HandleRequest's addresses (config, plugins, mw,
\* tree), the payload of server.getRequestObject(), where the invocation is
\* (pc), handleRequest.platform, the platform that created the Jovo object
\* (0: not created), whether jovo.$response is set, the place in the pipeline
\* (stage, idx), the calls made so far (log), the stage at which
\* stopMiddlewareExecution was called (0: never), and how it ended.
InFlight(r) == reqs[r].end.result = "pending"
Log(r, event) == Append(reqs[r].log, event)

\* Lines 167-170: new HandleRequest(this, server), and mount() is called.
HandleStart(payload, max) ==
  /\ Len(reqs) < max
  /\ LET c == NewHandleRequest(heap, app)
     IN  /\ heap' = c.heap
         /\ reqs' = Append(reqs,
               [config |-> c.ext.config, plugins |-> c.ext.plugins,
                mw |-> c.ext.mw, tree |-> c.ext.tree,
                payload |-> payload, pc |-> "mount", platform |-> 0,
                jovo |-> 0, response |-> FALSE, stage |-> 1, idx |-> 1,
                log |-> <<"construct", "mount">>, stopAt |-> 0,
                end |-> Pending])
  /\ UNCHANGED <<app, testEnv, inits, setup, thrown, ops>>

\* platforms.find(platform => platform.isRequestRelated(payload)), lines
\* 172-174: the first platform that recognizes the payload, 0 when none does.
FindLast(platforms, payload) ==
  LET hits == {i \in 1..Len(platforms) : payload \in heap.plug[platforms[i]].recog}
  IN  IF hits = {} THEN 0
      ELSE platforms[CHOOSE i \in hits : \A j \in hits : j <= i]
Find(platforms, payload) ==
  LET hits == {i \in 1..Len(platforms) : payload \in heap.plug[platforms[i]].recog}
  IN  IF hits = {} THEN 0
      ELSE platforms[CHOOSE i \in hits : \A j \in hits : i <= j]

\* if (!relatedPlatform), line 175.
PlatformNeverMissing(relatedPlatform) == FALSE
PlatformMissing(relatedPlatform) == relatedPlatform = 0

\* What may fail between the call of mount() and the call of run().
MountFailures == {"mount", "createJovoInstance"}

\* mount() settles.  Rejected: the catch block.  Resolved (lines 172-182): the
\* related platform is looked up; without one MatchingPlatformNotFoundError is
\* thrown; else it is bound and asked to create the Jovo object, which may
\* throw as well; else the pipeline starts.
MountDone(r, ok) ==
  /\ r \in 1..Len(reqs) /\ reqs[r].pc = "mount"
  /\ LET relatedPlatform == Find(Platforms(heap, reqs[r]), reqs[r].payload)
     IN  \E failure \in (IF ok THEN {"none"} ELSE MountFailures) :
          reqs' = [reqs EXCEPT ![r] =
           IF failure = "mount"
             THEN [@ EXCEPT !.pc = "done", !.end = HandleError("MountError")]
           ELSE IF PlatformMissing(relatedPlatform)
             THEN [@ EXCEPT !.pc = "done", !.log = Log(r, "find"),
                     !.end = HandleError("MatchingPlatformNotFoundError")]
           ELSE IF failure = "createJovoInstance"
             THEN [@ EXCEPT !.pc = "done", !.platform = relatedPlatform,
                     !.log = Log(r, "find") \o <<"createJovoInstance">>,
                     !.end = HandleError("CreateJovoInstanceError")]
           ELSE [@ EXCEPT !.pc = "run", !.platform = relatedPlatform,
                   !.jovo = relatedPlatform,
                   !.log = Log(r, "find") \o <<"createJovoInstance", "run">>]]
  /\ UNCHANGED <<heap, app, testEnv, inits, setup, thrown, ops>>

\* MiddlewareCollection.run(names, jovo): the next handler to invoke, from
\* handler idx of stage number stage on: <<stage, idx>>, or <<0, 0>> when no
\* stage from there on has a handler left.
NextHandler(mc, stage, idx) ==
  LET left == {s \in stage..Len(APP_MIDDLEWARES) :
                 /\ APP_MIDDLEWARES[s] \in DOMAIN mc
                 /\ Len(mc[APP_MIDDLEWARES[s]]) >= (IF s = stage THEN idx ELSE 1)}
  IN  IF left = {} THEN <<0, 0>>
      ELSE LET s == CHOOSE s \in left : \A s2 \in left : s <= s2
           IN  <<s, IF s = stage THEN idx ELSE 1>>

\* HandleRequest.stopMiddlewareExecution(), lines 248-250:
\* middlewareCollection.remove(...middlewareCollection.names).
StopNothing(mc) == MiddlewareRemove(mc, {})
StopMiddlewareExecution(mc) == MiddlewareRemove(mc, DOMAIN mc)

\* What a stage handler may do with the Jovo object it is given.
Outcomes == {"next", "stop", "respond", "throw"}

RunHandlerClearsOnThrow(r, outcome) ==
  /\ r \in 1..Len(reqs) /\ reqs[r].pc = "run"
  /\ LET at == NextHandler(heap.mw[reqs[r].mw], reqs[r].stage, reqs[r].idx)
         ran == [reqs[r] EXCEPT !.stage = at[1], !.idx = at[2] + 1,
                                !.log = Log(r, APP_MIDDLEWARES[at[1]])]
     IN  /\ at # <<0, 0>>
         /\ reqs' = [reqs EXCEPT ![r] =
               CASE outcome = "stop" -> [ran EXCEPT !.stopAt = at[1]]
                 [] outcome = "respond" -> [ran EXCEPT !.response = TRUE]
                 [] outcome = "throw" ->
                      [ran EXCEPT !.pc = "done", !.end = HandleError("HandlerError")]
                 [] OTHER -> ran]
         /\ heap' = IF outcome \in {"stop", "throw"}
                      THEN [heap EXCEPT !.mw[reqs[r].mw] = StopMiddlewareExecution(@)]
                      ELSE heap
  /\ UNCHANGED <<app, testEnv, inits, setup, thrown, ops>>

\* The pipeline (line 182) invokes its next handler, which returns, calls
\* jovo.$handleRequest.stopMiddlewareExecution(), sets jovo.$response, or throws.
RunHandler(r, outcome) ==
  /\ r \in 1..Len(reqs) /\ reqs[r].pc = "run"
  /\ LET at == NextHandler(heap.mw[reqs[r].mw], reqs[r].stage, reqs[r].idx)
         ran == [reqs[r] EXCEPT !.stage = at[1], !.idx = at[2] + 1,
                                !.log = Log(r, APP_MIDDLEWARES[at[1]])]
     IN  /\ at # <<0, 0>>
         /\ reqs' = [reqs EXCEPT ![r] =
               CASE outcome = "stop" -> [ran EXCEPT !.stopAt = at[1]]
                 [] outcome = "respond" -> [ran EXCEPT !.response = TRUE]
                 [] outcome = "throw" ->
                      [ran EXCEPT !.pc = "done", !.end = HandleError("HandlerError")]
                 [] OTHER -> ran]
         /\ heap' = IF outcome = "stop"
                      THEN [heap EXCEPT !.mw[reqs[r].mw] = StopMiddlewareExecution(@)]
                      ELSE heap
  /\ UNCHANGED <<app, testEnv, inits, setup, thrown, ops>>

\* The pipeline has no handler left: run() resolves and dismount() is called
\* (line 184).
RunEnd(r) ==
  /\ r \in 1..Len(reqs) /\ reqs[r].pc = "run"
  /\ NextHandler(heap.mw[reqs[r].mw], reqs[r].stage, reqs[r].idx) = <<0, 0>>
  /\ reqs' = [reqs EXCEPT ![r] =
        [@ EXCEPT !.pc = "dismount", !.log = Log(r, "dismount")]]
  /\ UNCHANGED <<heap, app, testEnv, inits, setup, thrown, ops>>

\* if (!jovo.$response), line 187.
ResponseNeverAbsent(response) == FALSE
ResponseAbsent(response) == ~response

DismountErrorNotFinal(r, ok) ==
  /\ r \in 1..Len(reqs) /\ reqs[r].pc = "dismount"
  /\ reqs' = [reqs EXCEPT ![r] =
        IF ResponseAbsent(reqs[r].response)
          THEN [@ EXCEPT !.pc = "done",
                  !.end = IF ok THEN Returned ELSE HandleError("DismountError")]
          ELSE [@ EXCEPT !.pc = "respond", !.log = Log(r, "setResponse"),
                  !.end = IF ok THEN @ ELSE HandleError("DismountError")]]
  /\ UNCHANGED <<heap, app, testEnv, inits, setup, thrown, ops>>

\* dismount() settles (lines 184-191).  Resolved: without jovo.$response
\* handle() returns; with one, server.setResponse is called.
DismountDone(r, ok) ==
  /\ r \in 1..Len(reqs) /\ reqs[r].pc = "dismount"
  /\ reqs' = [reqs EXCEPT ![r] =
        IF ~ok
          THEN [@ EXCEPT !.pc = "done", !.end = HandleError("DismountError")]
        ELSE IF ResponseAbsent(reqs[r].response)
          THEN [@ EXCEPT !.pc = "done", !.end = Returned]
        ELSE [@ EXCEPT !.pc = "respond", !.log = Log(r, "setResponse")]]
  /\ UNCHANGED <<heap, app, testEnv, inits, setup, thrown, ops>>

\* server.setResponse settles (lines 191-194).
SetResponseDone(r, ok) ==
  /\ r \in 1..Len(reqs) /\ reqs[r].pc = "respond"
  /\ reqs' = [reqs EXCEPT ![r] =
        [@ EXCEPT !.pc = "done",
           !.end = IF ok THEN Returned ELSE HandleError("SetResponseError")]]
  /\ UNCHANGED <<heap, app, testEnv, inits, setup, thrown, ops>>

\* ------------------------------------------- writes to a request's objects
\* Code running for request r (a plugin's mount hook, a stage handler) assigns
\* handleRequest.config[key] = value.
MutKeys == {"debug"}
MutValues == {7}
MutateConfig(r, key, value) ==
  /\ r \in 1..Len(reqs) /\ InFlight(r)
  /\ ops.mut < MaxMut
  /\ heap' = [heap EXCEPT !.cfg[reqs[r].config] = Put(@, key, Scalar(value))]
  /\ ops' = [ops EXCEPT !.mut = @ + 1]
  /\ UNCHANGED <<app, testEnv, reqs, inits, setup, thrown>>

\* ... or assigns handleRequest.plugins[name].config[key] = value, for the
\* i-th plugin of the request's plugins object.
MutatePluginConfig(r, i, key, value) ==
  /\ r \in 1..Len(reqs) /\ InFlight(r)
  /\ ops.mut < MaxMut
  /\ i \in 1..Len(heap.reg[reqs[r].plugins])
  /\ heap' = [heap EXCEPT
        !.cfg[heap.plug[heap.reg[reqs[r].plugins][i]].cfg] =
           Put(@, key, Scalar(value))]
  /\ ops' = [ops EXCEPT !.mut = @ + 1]
  /\ UNCHANGED <<app, testEnv, reqs, inits, setup, thrown>>

\* --------------------------------------------------------- App.initialize
\* An initialize() invocation: where it is (pc), whether the App was
\* initialized when it was called (noop), and how it ended.
\* priorOk: an earlier invocation had completed without failure when this one
\* was called.
Succeeded(j) ==
  inits[j].pc = "done" /\ inits[j].end.result = "returned"
    /\ inits[j].end.raised = "none"
\* The isInitialized getter, lines 87-89.
NeverInitialized == FALSE
IsInitialized == app.initialized
\* Lines 128-132: return when initialized, else i18n.initialize() is called.
InitializeCall(max) ==
  /\ Len(inits) < max
  /\ LET priorOk == \E j \in 1..Len(inits) : Succeeded(j)
     IN  IF IsInitialized
           THEN /\ inits' = Append(inits, [pc |-> "done", noop |-> TRUE,
                                           priorOk |-> priorOk, end |-> Returned])
                /\ setup' = setup
           ELSE /\ inits' = Append(inits, [pc |-> "i18n", noop |-> FALSE,
                                           priorOk |-> priorOk, end |-> Pending])
                /\ setup' = [setup EXCEPT !.i18n = @ + 1]
  /\ UNCHANGED <<heap, app, testEnv, reqs, thrown, ops>>

\* i18n.initialize() settles: initializePlugins() is called (line 133), or the
\* catch block runs.
I18nDone(j, ok) ==
  /\ j \in 1..Len(inits) /\ inits[j].pc = "i18n"
  /\ IF ok
       THEN /\ inits' = [inits EXCEPT ![j].pc = "plugins"]
            /\ setup' = [setup EXCEPT !.plugins = @ + 1]
       ELSE /\ inits' = [inits EXCEPT ![j].pc = "done",
                                      ![j].end = HandleError("I18nError")]
            /\ setup' = setup
  /\ UNCHANGED <<heap, app, testEnv, reqs, thrown, ops>>

InitializedWhateverHappens(j, ok) ==
  /\ j \in 1..Len(inits) /\ inits[j].pc = "plugins"
  /\ inits' = [inits EXCEPT ![j].pc = "done",
        ![j].end = IF ok THEN Returned ELSE HandleError("PluginInitializeError")]
  /\ app' = [app EXCEPT !.initialized = TRUE]
  /\ UNCHANGED <<heap, testEnv, reqs, setup, thrown, ops>>

\* initializePlugins() settles: initialized = true (line 134), or the catch
\* block runs.
InitializePluginsDone(j, ok) ==
  /\ j \in 1..Len(inits) /\ inits[j].pc = "plugins"
  /\ inits' = [inits EXCEPT ![j].pc = "done",
        ![j].end = IF ok THEN Returned ELSE HandleError("PluginInitializeError")]
  /\ app' = [app EXCEPT !.initialized = IF ok THEN TRUE ELSE @]
  /\ UNCHANGED <<heap, testEnv, reqs, setup, thrown, ops>>

\* ------------------------------------------------------- the specifications
Handling(max, payloads, oks, outcomes) ==
  \/ \E payload \in payloads : HandleStart(payload, max)
  \/ \E r \in 1..max, ok \in oks : MountDone(r, ok)
  \/ \E r \in 1..max, outcome \in outcomes : RunHandler(r, outcome)
  \/ \E r \in 1..max : RunEnd(r)
  \/ \E r \in 1..max, ok \in oks : DismountDone(r, ok)
  \/ \E r \in 1..max, ok \in oks : SetResponseDone(r, ok)

Initialization(max) ==
  \/ InitializeCall(max)
  \/ \E j \in 1..max, ok \in BOOLEAN : I18nDone(j, ok)
  \/ \E j \in 1..max, ok \in BOOLEAN : InitializePluginsDone(j, ok)
Registration(max) ==
  \/ \E usables \in UseInputs : Use(usables, max)
  \/ \E name \in HookNames, fn \in HookFns : Hook(name, fn, max)
  \/ \E config \in ConfigureInputs : Configure(config, max)
Mutation(max) ==
  \/ \E r \in 1..max, k \in MutKeys, v \in MutValues : MutateConfig(r, k, v)
  \/ \E r \in 1..max, k \in MutKeys, v \in MutValues :
        MutatePluginConfig(r, 1, k, v)

\* Requests handled by an App that is no longer extended.
Next ==
  \/ Handling(MaxReq, Payloads, BOOLEAN, Outcomes)
  \/ OnError(1)
Spec == Init /\ [][Next]_vars

\* Requests in flight together, while code running for a request writes to
\* the request's objects.
NextIso ==
  \/ Handling(MaxConc, {"alexa"}, {TRUE}, {"next", "stop", "respond"})
  \/ Mutation(MaxConc)
SpecIso == InitWith(CtorConfigs, {FALSE}) /\ [][NextIso]_vars

\* Requests handled while the App is extended.
NextReg ==
  \/ Registration(MaxAppOps)
  \/ Handling(MaxReq, {"alexa"}, {TRUE}, {"next", "stop", "respond"})
SpecReg == Init /\ [][NextReg]_vars

\* initialize() and handle() invocations that fail, with error callbacks
\* registered in between.
NextErr ==
  \/ Initialization(MaxErrInit)
  \/ Handling(MaxReq, {"alexa", "none"}, BOOLEAN, {"next", "respond", "throw"})
  \/ \E cb \in Callbacks : OnError(cb)
SpecErr == InitWith(CtorConfigs, {FALSE}) /\ [][NextErr]_vars

\* initialize() invocations, one after or during another.
NextInit ==
  \/ Initialization(MaxInit)
  \/ OnError(1)
SpecInit == Init /\ [][NextInit]_vars

\* A sequence of configure() calls.
MergeInputs ==
  { InitConfig(Obj([a |-> Obj([x |-> Scalar(1)])]), <<>>, <<>>),
    InitConfig(Obj([a |-> Obj([y |-> Scalar(2)])]), <<>>, <<>>),
    InitConfig(Obj([a |-> Obj([x |-> Obj([p |-> Scalar(1)])])]), <<>>, <<>>),
    InitConfig(Obj([a |-> Obj([x |-> Obj([q |-> Scalar(2)])])]), <<>>, <<>>),
    InitConfig(Obj([a |-> Scalar(5)]), <<>>, <<>>),
    InitConfig(Obj([a |-> Undef, logging |-> Scalar(0)]), <<>>, <<>>),
    InitConfig(Obj([b |-> Arr(<<Scalar(1), Scalar(2)>>)]), <<>>, <<>>),
    InitConfig(Obj([b |-> Arr(<<Scalar(9)>>)]), <<>>, <<>>),
    InitConfig(Obj([b |-> Obj([x |-> Scalar(1)])]), <<GoogleAssistant>>,
               <<MainComponent>>) }
NextConfigure == \E config \in MergeInputs : Configure(config, MaxMerges)
SpecConfigure == Init /\ [][NextConfigure]_vars

\* ------------------------------------------------------------ the properties
Stage(name) == StageIndex(name)
\* The stages whose handlers request r has invoked.
StagesRun(r) ==
  {reqs[r].log[i] : i \in 1..Len(reqs[r].log)} \cap StageNames
Called(r, event) == \E i \in 1..Len(reqs[r].log) : reqs[r].log[i] = event
AfterRouter ==
  {"dialogue.logic", "dialogue.end", "response.start", "response.output",
   "response.tts", "response.end"}

\* C1: when a handler of stage dialogue.router calls stopMiddlewareExecution()
\* on the request's HandleRequest, no handler of dialogue.logic, dialogue.end
\* or of a response stage is invoked for that request.
C1_StopAtRouterSkipsLaterStages ==
  \A r \in 1..Len(reqs) :
    reqs[r].stopAt = Stage("dialogue.router") => StagesRun(r) \cap AfterRouter = {}
\* A request that was stopped at dialogue.router and has returned, under an App
\* with a handler at dialogue.logic.
C1_Witness ==
  \E r \in 1..Len(reqs) :
    /\ reqs[r].stopAt = Stage("dialogue.router")
    /\ reqs[r].end.result = "returned"
    /\ HandlersOf(app)["dialogue.logic"] # <<>>

\* No platform of request r's plugins object answers isRequestRelated with true
\* for the request's payload.
NoPlatformRelated(r) ==
  \A i \in 1..Len(PluginsOf(reqs[r])) :
    ~(PluginsOf(reqs[r])[i].platform /\ reqs[r].payload \in PluginsOf(reqs[r])[i].recog)
NotFound == "MatchingPlatformNotFoundError"

\* C4: when no registered platform recognizes the payload, no stage handler
\* runs and server.setResponse is not called, and once the platforms have been
\* queried handle() has raised MatchingPlatformNotFoundError, which went to the
\* registered error callback (to the caller when none is registered).
C4_NoPlatformNoResponse ==
  \A r \in 1..Len(reqs) :
    NoPlatformRelated(r) =>
      /\ StagesRun(r) = {}
      /\ ~Called(r, "setResponse")
      /\ reqs[r].jovo = 0
      /\ Called(r, "find") =>
            /\ reqs[r].pc = "done"
            /\ reqs[r].end.raised = NotFound
            /\ \/ reqs[r].end = Ended("returned", NotFound, "none", 1, NotFound, FALSE)
               \/ reqs[r].end = Ended("thrown", NotFound, NotFound, 0, "none", FALSE)
\* A request whose payload no platform recognized, ended by the error callback.
C4_Witness ==
  \E r \in 1..Len(reqs) :
    /\ NoPlatformRelated(r) /\ Called(r, "find")
    /\ reqs[r].end.cb = 1 /\ reqs[r].end.cbError = NotFound

\* C5: when the pipeline and dismount() have completed without failure and
\* jovo.$response is absent, handle() returns: server.setResponse is not called
\* and the error callback is not invoked.
C5_NoResponseNoWrite ==
  \A r \in 1..Len(reqs) :
    (reqs[r].pc = "done" /\ Called(r, "dismount")
       /\ reqs[r].end.raised # "DismountError" /\ ~reqs[r].response)
    => (reqs[r].end = Returned /\ ~Called(r, "setResponse"))
\* A request that ran handlers, was dismounted and returned without a response.
C5_Witness ==
  \E r \in 1..Len(reqs) :
    /\ reqs[r].pc = "done" /\ Called(r, "dismount") /\ ~reqs[r].response
    /\ reqs[r].end.raised = "none" /\ StagesRun(r) # {}

\* The platforms of request r that recognize its payload, as places in the
\* request's plugins object.
Related(r) ==
  {i \in 1..Len(PluginsOf(reqs[r])) :
     PluginsOf(reqs[r])[i].platform /\ reqs[r].payload \in PluginsOf(reqs[r])[i].recog}
\* The App's plugin names, in registration order.
NamesOf(e) == [i \in 1..Len(PluginsOf(e)) |-> PluginsOf(e)[i].name]

\* C9: a request that got past the platform query is bound to exactly the
\* earliest-registered platform that recognizes its payload, and that platform
\* was asked for the Jovo object, which is its own unless the creation threw.
C9_FirstMatchBound ==
  \A r \in 1..Len(reqs) :
    (Called(r, "find") /\ Related(r) # {}) =>
      \E i \in Related(r) :
        /\ \A j \in Related(r) : i <= j
        /\ reqs[r].platform = heap.reg[reqs[r].plugins][i]
        /\ reqs[r].jovo = IF reqs[r].end.raised = "CreateJovoInstanceError"
                            THEN 0 ELSE reqs[r].platform
        /\ NamesOf(reqs[r]) = NamesOf(app)
        /\ Called(r, "createJovoInstance")
\* A request whose payload two platforms recognize, bound to the first.
C9_Witness ==
  \E r \in 1..Len(reqs) :
    /\ Cardinality(Related(r)) = 2
    /\ reqs[r].platform # 0
    /\ heap.plug[reqs[r].platform].name = "GoogleAssistant"

\* The config and the plugin configs an Extensible holds.
ConfigsOf(e) ==
  [config |-> ConfigOf(e),
   plugins |-> [i \in 1..Len(heap.reg[e.plugins]) |->
                 heap.cfg[heap.plug[heap.reg[e.plugins][i]].cfg]]]
Requests == 1..Len(reqs)

\* C2: a step that changes the config or a plugin config of one in-flight
\* request leaves the config and plugin configs of every other in-flight
\* request and of the App as they were.
C2_ConfigIsolation ==
  [][\A r1 \in Requests :
       (InFlight(r1) /\ ConfigsOf(reqs[r1])' # ConfigsOf(reqs[r1])) =>
         /\ ConfigsOf(app)' = ConfigsOf(app)
         /\ \A r2 \in Requests \ {r1} :
              InFlight(r2) => ConfigsOf(reqs[r2])' = ConfigsOf(reqs[r2])]_vars
\* Two requests in flight, a plugin config of one of them written to, and the
\* other's and the App's not.
C2_Witness ==
  \E r1 \in Requests, r2 \in Requests :
    /\ r1 # r2 /\ InFlight(r1) /\ InFlight(r2)
    /\ Has(ConfigsOf(reqs[r1]).plugins[1], "debug")
    /\ ~Has(ConfigsOf(reqs[r2]).plugins[1], "debug")
    /\ ~Has(ConfigsOf(app).plugins[1], "debug")

\* The plugins, platforms, stage handlers and component tree an Extensible sees.
SeenBy(e) ==
  [plugins |-> PluginsOf(e),
   platforms |-> LET T(pl) == pl.platform IN SelectSeq(PluginsOf(e), T),
   handlers |-> HandlersOf(e),
   tree |-> TreeOf(e)]

Newest == reqs[Len(reqs)]

\* C3: a HandleRequest starts with the plugins, platforms, stage handlers and
\* component tree the App has when it is constructed, and a use, hook or
\* configure call on the App made while the request is in flight leaves what the
\* request sees unchanged.
C3_RegistrationInvisible ==
  [][/\ Len(reqs') = Len(reqs) + 1 => SeenBy(Newest)' = SeenBy(app)
     /\ Registration(MaxAppOps) =>
          \A r \in Requests : InFlight(r) => SeenBy(reqs[r])' = SeenBy(reqs[r])]_vars
\* A request in flight, in the pipeline, that sees other plugins and other
\* components than the App now has.
C3_Witness ==
  \E r \in Requests :
    /\ InFlight(r) /\ reqs[r].stopAt = 0 /\ reqs[r].pc = "run"
    /\ NamesOf(reqs[r]) # NamesOf(app)
    /\ TreeOf(reqs[r]) # TreeOf(app)

Invocations == 1..Len(inits)

\* C6: an initialize() invocation made after an earlier one has completed
\* without failure sets nothing up and returns without the error callback; when
\* every invocation but the first was made so, i18n.initialize() and
\* initializePlugins() have each run exactly once.
C6_SecondInitializeNoop ==
  /\ \A j \in Invocations :
       inits[j].priorOk => (inits[j].noop /\ inits[j].end = Returned)
  /\ (Len(inits) >= 2 /\ \A j \in Invocations : j > 1 => inits[j].priorOk)
       => (setup.i18n = 1 /\ setup.plugins = 1)
\* A second invocation made after the first had completed.
C6_Witness ==
  /\ Len(inits) >= 2
  /\ inits[2].priorOk /\ inits[2].pc = "done"
  /\ setup.i18n = 1

\* How an invocation that raised an error must have ended when cb was the
\* callback registered last (0: none).
Routed(end, cb) ==
  IF cb # 0
    THEN end.cb = cb /\ end.cbError = end.raised /\ end.error # end.raised
    ELSE end.cb = 0 /\ end.result = "thrown" /\ end.error = end.raised
Fails(old, new, j) ==
  /\ j > Len(old) \/ old[j].end.result = "pending"
  /\ new[j].end.raised # "none"

\* C10: an initialize() or handle() invocation whose try block raises an error
\* ends in handleError: with a callback registered, the callback registered
\* last is invoked with that error and the error does not reach the caller;
\* with none registered, the same error is thrown to the caller.
C10_ErrorRouting ==
  [][/\ \A r \in 1..Len(reqs') :
          Fails(reqs, reqs', r) => Routed(reqs'[r].end, ops.onError)
     /\ \A j \in 1..Len(inits') :
          Fails(inits, inits', j) => Routed(inits'[j].end, ops.onError)]_vars
\* initialize() failed into callback 1, and after callback 2 had replaced it
\* handle() failed into callback 2.
C10_Witness ==
  /\ Len(inits) >= 1 /\ inits[1].end.raised = "I18nError"
  /\ inits[1].end.cb = 1 /\ inits[1].end.result = "returned"
  /\ Len(reqs) >= 1 /\ reqs[1].end.raised = "MatchingPlatformNotFoundError"
  /\ reqs[1].end.cb = 2

\* Every key of old that src does not mention is in new with its old value,
\* at every depth that src descends into with an object value.
RECURSIVE Preserved(_, _, _)
Preserved(old, new, src) ==
  \A k \in DOMAIN old.m :
    IF k \notin DOMAIN src.m
      THEN Has(new, k) /\ new.m[k] = old.m[k]
      ELSE (src.m[k].t = "o" /\ old.m[k].t = "o") =>
             /\ Has(new, k) /\ new.m[k].t = "o"
             /\ Preserved(old.m[k], new.m[k], src.m[k])
AX == Obj([a |-> Obj([x |-> Scalar(1)])])
AY == Obj([a |-> Obj([y |-> Scalar(2)])])
AXY == Obj([x |-> Scalar(1), y |-> Scalar(2)])

\* C7: configure() keeps every key an earlier call set and the partial config
\* does not mention, at every nesting depth; on a config whose a is {x: 1},
\* configure({a: {y: 2}}) leaves a = {x: 1, y: 2}.
C7_ConfigureDeepMerges ==
  [][\A config \in MergeInputs : Configure(config, MaxMerges) =>
       /\ Preserved(ConfigOf(app), ConfigOf(app)', ConfigureSource(config))
       /\ (config.conf = AY /\ Get(ConfigOf(app), "a") = AX.m.a)
            => Get(ConfigOf(app)', "a") = AXY]_vars
\* After configure({a: {x: 1}}) and configure({a: {y: 2}}).
C7_Witness == ops.app = 2 /\ Get(ConfigOf(app), "a") = AXY

\* The value a key has after a source value sv was merged over the value ov.
RECURSIVE MergedAs(_, _, _)
MergedAs(ov, nv, sv) ==
  CASE sv.t = "s" -> nv = sv
    [] sv.t = "u" -> nv = ov
    [] OTHER ->
         LET base == IF sv.t = "a" THEN (IF ov.t = "a" THEN ov ELSE EmptyArr)
                     ELSE (IF IsObject(ov) THEN ov ELSE EmptyObj)
         IN  /\ nv.t = base.t
             /\ DOMAIN nv.m = DOMAIN base.m \cup DOMAIN sv.m
             /\ \A k \in DOMAIN nv.m :
                  IF k \in DOMAIN sv.m
                    THEN MergedAs(Get(base, k), nv.m[k], sv.m[k])
                    ELSE nv.m[k] = base.m[k]
SourceKeys(config) == DOMAIN config.conf.m \ {"plugins", "components"}

\* The value a key has after sv was merged over ov, were arrays replaced:
\* a scalar or an array is the new value, an object is merged key by key into
\* the existing object.
RECURSIVE ReplacedAs(_, _, _)
ReplacedAs(ov, nv, sv) ==
  CASE sv.t \in {"s", "a"} -> nv = sv
    [] sv.t = "u" -> TRUE
    [] OTHER ->
         /\ IsObject(nv)
         /\ \A k \in DOMAIN sv.m :
              Has(nv, k) /\ ReplacedAs(Get(ov, k), nv.m[k], sv.m[k])
         /\ IsObject(ov) =>
              \A k \in DOMAIN ov.m \ DOMAIN sv.m :
                Has(nv, k) /\ nv.m[k] = ov.m[k]

\* C8: for every key of the partial config other than plugins/components, an
\* array value replaces the existing array as a whole (no element of the old
\* array survives), an object value is merged recursively into the existing
\* object, and a scalar value overwrites the existing value.
C8_ArraysReplaced ==
  [][\A config \in MergeInputs : Configure(config, MaxMerges) =>
       \A k \in SourceKeys(config) :
         ReplacedAs(Get(ConfigOf(app), k), Get(ConfigOf(app)', k),
                    config.conf.m[k])]_vars

\* What configure() does instead: lodash.merge merges an array value index by
\* index into an existing array, so that the old elements at indices the new
\* array does not have survive.
ConfigureMergesArraysByIndex ==
  [][\A config \in MergeInputs : Configure(config, MaxMerges) =>
       \A k \in SourceKeys(config) :
         MergedAs(Get(ConfigOf(app), k), Get(ConfigOf(app)', k),
                  config.conf.m[k])]_vars
\* After configure({b: [1, 2]}) and configure({b: [9]}): b is [9, 2].
OldElementSurvives ==
  ops.app >= 2 /\ Get(ConfigOf(app), "b") = Arr(<<Scalar(9), Scalar(2)>>)

\* mount() of request r resolved: handle() went on to query the platforms.
Mounted(r) == Called(r, "find")

\* C11: every handle() invocation in which mount() completed has performed
\* dismount() by the time it finishes, whatever the outcome of platform
\* matching and of the pipeline.
C11_DismountAlways ==
  \A r \in Requests :
    (reqs[r].pc = "done" /\ Mounted(r)) => Called(r, "dismount")

\* The places of an event in request r's log.
Places(r, event) == {i \in 1..Len(reqs[r].log) : reqs[r].log[i] = event}
BeforeResponse ==
  {"MountError", "MatchingPlatformNotFoundError", "CreateJovoInstanceError",
   "HandlerError", "DismountError"}

\* C12: server.setResponse is called at most once per handle() invocation, and
\* only after the pipeline run and the dismount, none of which failed; a
\* request whose mount, platform matching, Jovo creation, stage handler or
\* dismount failed never has server.setResponse called.
C12_SetResponseOnceAfterAll ==
  \A r \in Requests :
    /\ Cardinality(Places(r, "setResponse")) <= 1
    /\ Called(r, "setResponse") =>
         /\ reqs[r].log[Len(reqs[r].log)] = "setResponse"
         /\ reqs[r].log[Len(reqs[r].log) - 1] = "dismount"
         /\ Called(r, "run")
         /\ reqs[r].end.raised \notin BeforeResponse
    /\ reqs[r].end.raised \in BeforeResponse => ~Called(r, "setResponse")
\* A request whose response was written after stage handlers had run.
C12_Witness ==
  \E r \in Requests :
    /\ Called(r, "setResponse") /\ reqs[r].end = Returned
    /\ StagesRun(r) # {}

\* The steps of handle() in the order the claim gives them: the five steps
\* before the pipeline, the fifteen stages, dismount and the response.
StepOrder ==
  <<"construct", "mount", "find", "createJovoInstance", "run",
    "request.start", "request", "request.end",
    "interpretation.start", "interpretation.asr", "interpretation.nlu",
    "interpretation.end",
    "dialogue.start", "dialogue.router", "dialogue.logic", "dialogue.end",
    "response.start", "response.output", "response.tts", "response.end",
    "dismount", "setResponse">>
Rank(event) == CHOOSE i \in 1..Len(StepOrder) : StepOrder[i] = event
Steps == {"construct", "mount", "find", "createJovoInstance", "run",
          "dismount", "setResponse"}

\* C13: the calls a handle() invocation makes follow the order construct,
\* mount, platform query, Jovo creation, the stages in catalog order, dismount,
\* setResponse: no call is made before an earlier one of that order, each
\* step is made once, and a request whose response was written made them all.
C13_StepOrder ==
  \A r \in Requests :
    LET log == reqs[r].log
    IN  /\ \A i \in 1..Len(log) : log[i] \in Steps \cup StageNames
        /\ \A i, j \in 1..Len(log) :
             i < j => /\ Rank(log[i]) <= Rank(log[j])
                      /\ log[i] \in Steps => log[i] # log[j]
        /\ Called(r, "setResponse") => \A e \in Steps : Called(r, e)
        /\ reqs[r].stopAt = 0 /\ Called(r, "dismount") =>
             \A s \in StageNames :
               Len(heap.mw[reqs[r].mw][s]) = Cardinality(Places(r, s))
\* A successful request that ran handlers of two stages and wrote a response.
C13_Witness ==
  \E r \in Requests :
    /\ reqs[r].end = Returned /\ Called(r, "setResponse")
    /\ Called(r, "dialogue.router") /\ Called(r, "dialogue.logic")

\* Request r ended because a stage handler threw.
HandlerFailed(r) == reqs[r].end.raised = "HandlerError"
\* A handle() invocation of a request whose stage handler threw: it is over
\* with the throwing handler as the last call made, the error went to
\* handleError, and the request's handler lists are those it was built with.
FailedInPlace(r) ==
  /\ reqs[r].pc = "done" /\ reqs[r].stopAt = 0
  /\ reqs[r].log[Len(reqs[r].log)] \in StageNames
  /\ reqs[r].end.result # "pending"
  /\ HandlersOf(reqs[r]) = HandlersOf(app)

\* C14: once a stage handler of a request has thrown, no further handler is
\* invoked and no further call is made for that request, the error has gone to
\* handleError, and the request's stage handler lists are not cleared.
C14_HandlerFailureAborts ==
  [][\A r \in Requests :
       /\ HandlerFailed(r)' => FailedInPlace(r)'
       /\ (HandlerFailed(r)' /\ ~HandlerFailed(r)) =>
            Routed(reqs'[r].end, ops.onError)
       /\ HandlerFailed(r) =>
            /\ reqs'[r].log = reqs[r].log
            /\ HandlersOf(reqs[r])' = HandlersOf(reqs[r])]_vars
\* A handler of dialogue.router threw while dialogue.logic has a handler.
C14_Witness ==
  \E r \in Requests :
    /\ HandlerFailed(r)
    /\ reqs[r].log[Len(reqs[r].log)] = "dialogue.router"
    /\ HandlersOf(reqs[r])["dialogue.logic"] # <<>>

\* The fifteen names of the RIDR catalog.
RIDR == {StepOrder[i] : i \in 6..20}
\* The stage names of the middleware collection of e.
StagesOf(e) == DOMAIN HandlersOf(e)

\* C15: whatever hook, use, configure and stopMiddlewareExecution calls were
\* made, the stages of the App's middleware collection (and of every
\* request's) are exactly the fifteen RIDR names; hook with a name outside the
\* catalog fails with an invalid-name error and changes no stage.
C15_StagesAreTheCatalog ==
  [][/\ StagesOf(app)' = RIDR /\ Cardinality(RIDR) = 15
     /\ \A r \in 1..Len(reqs') : StagesOf(reqs[r])' = RIDR
     /\ \A name \in HookNames \ RIDR, fn \in HookFns :
          Hook(name, fn, MaxAppOps) =>
            /\ thrown' = "InvalidMiddlewareNameError"
            /\ HandlersOf(app)' = HandlersOf(app)]_vars
\* hook was refused a name outside the catalog, and a request was stopped.
C15_Witness ==
  /\ thrown = "InvalidMiddlewareNameError"
  /\ \E r \in Requests :
       reqs[r].stopAt # 0 /\ \A s \in RIDR : HandlersOf(reqs[r])[s] = <<>>

\* The names of the usables of a use() call that are plugins, of those that
\* carry skipTests, and of those that are components.
PluginNames(usables) ==
  {usables[i].name : i \in {j \in 1..Len(usables) : usables[j].plugin}}
SkipTestsNames(usables) ==
  {usables[i].name : i \in {j \in 1..Len(usables) :
     usables[j].plugin /\ Truthy(Get(usables[j].config, "skipTests"))}}
ComponentNames(usables) ==
  {usables[i].name : i \in {j \in 1..Len(usables) : ~usables[j].plugin}}
Registered(e) == {NamesOf(e)[i] : i \in 1..Len(NamesOf(e))}

\* C16: a use() call registers its plugins in the plugin registry only (not
\* at all when they carry skipTests under a test runner) and its components
\* in the component tree only; a call of components only leaves the registry
\* and the stage handlers as they were, a call of plugins only leaves the
\* tree as it was, and a mixed call registers both.
C16_UsePartitions ==
  [][\A usables \in UseInputs : Use(usables, MaxAppOps) =>
       LET skipped == IF testEnv THEN SkipTestsNames(usables) ELSE {}
       IN  /\ Registered(app)' =
                Registered(app) \cup (PluginNames(usables) \ skipped)
           /\ TreeOf(app)' = TreeOf(app) \cup ComponentNames(usables)
           /\ PluginNames(usables) \ skipped = {} =>
                /\ PluginsOf(app)' = PluginsOf(app)
                /\ HandlersOf(app)' = HandlersOf(app)
           /\ ComponentNames(usables) = {} => TreeOf(app)' = TreeOf(app)]_vars
\* One call registered the platform Alexa and the component MainComponent on
\* an App that had neither.
C16_Witness ==
  /\ ops.app = 1 /\ thrown = "none"
  /\ "Alexa" \in Registered(app)
  /\ Registered(app) \cap {"GoogleAssistant", "DialoguePlugin"} = {}
  /\ "MainComponent" \in TreeOf(app)

\* Request r has run every handler that is registered on the App.
RanAllOf(r, e) ==
  \A s \in RIDR : Cardinality(Places(r, s)) = Len(HandlersOf(e)[s])

\* C17: the step in which a handler of request r calls
\* stopMiddlewareExecution() empties the handler lists of r's collection and
\* leaves those of the App and of every other request as they were; a request
\* that was not stopped itself runs every handler registered on the App,
\* whichever requests were stopped before.
C17_StopClearsOwnRequestOnly ==
  [][\A r \in Requests :
       /\ (reqs[r].stopAt = 0 /\ reqs'[r].stopAt # 0) =>
            /\ \A s \in RIDR : HandlersOf(reqs[r])'[s] = <<>>
            /\ HandlersOf(app)' = HandlersOf(app)
            /\ \A q \in Requests \ {r} :
                 HandlersOf(reqs[q])' = HandlersOf(reqs[q])
       /\ (reqs'[r].stopAt = 0 /\ reqs[r].pc = "run" /\ reqs'[r].pc = "dismount")
            => RanAllOf(r, app)']_vars
\* One request was stopped at dialogue.router; another ran the dialogue.logic
\* handler and returned.
C17_Witness ==
  \E r, q \in Requests :
    /\ reqs[r].stopAt = Stage("dialogue.router")
    /\ reqs[q].stopAt = 0 /\ Called(q, "dialogue.logic")
    /\ reqs[q].end = Returned

\* C18: whatever the interleaving of initialize() invocations, none of which
\* failed, i18n.initialize() and initializePlugins() are each started at most
\* once.
C18_InitializedOnce ==
  (\A j \in Invocations : inits[j].end.raised = "none") =>
    (setup.i18n <= 1 /\ setup.plugins <= 1)

\* Invocation j went through i18n.initialize() and initializePlugins() and
\* neither failed.
CompletedSetup(j) == Succeeded(j) /\ ~inits[j].noop

\* C19: isInitialized is false at construction and as long as no initialize()
\* invocation has completed both setup steps without failure, true from then
\* on; an invocation that fails does not change it, and an invocation that
\* finds it false performs the setup (again).
C19_InitializedStateMachine ==
  [][/\ IsInitialized <=> \E j \in Invocations : CompletedSetup(j)
     /\ IsInitialized' <=> \E j \in 1..Len(inits') : CompletedSetup(j)'
     /\ IsInitialized => IsInitialized'
     /\ \A j \in 1..Len(inits') :
          Fails(inits, inits', j) => (IsInitialized' <=> IsInitialized)
     /\ (Len(inits') = Len(inits) + 1 /\ ~IsInitialized) =>
          /\ ~inits'[Len(inits')].noop
          /\ setup'.i18n = setup.i18n + 1]_vars
\* The first invocation failed, the second performed the setup again and
\* completed it.
C19_Witness ==
  /\ Len(inits) >= 2 /\ inits[1].end.raised # "none"
  /\ CompletedSetup(2) /\ IsInitialized /\ setup.i18n = 2

AfterJovo == {"HandlerError", "DismountError", "SetResponseError"}

\* C20: whenever a handle() invocation ended in the error callback, the
\* callback was given the error raised and no Jovo object, also when the
\* error was raised after the Jovo object had been created.
C20_CallbackGetsErrorOnly ==
  \A r \in Requests :
    reqs[r].end.cb # 0 =>
      /\ reqs[r].end.raised # "none"
      /\ reqs[r].end.cbError = reqs[r].end.raised
      /\ ~reqs[r].end.cbJovo
      /\ reqs[r].end.raised \in AfterJovo <=> reqs[r].jovo # 0
\* A stage handler threw after the Jovo object had been created, and the
\* callback was invoked.
C20_Witness ==
  \E r \in Requests :
    /\ reqs[r].jovo # 0 /\ reqs[r].end.raised = "HandlerError"
    /\ reqs[r].end.cb # 0 /\ ~reqs[r].end.cbJovo
====
